---------------------------- MODULE Spec2Model ----------------------------
(***************************************************************************)
(* Model of the stock scraper (src/requirements.txt/9.py): the symbol      *)
(* mapping, the two extractors of the Screener page, the YFinance fetch    *)
(* and the row loop that merges everything into the result rows.           *)
(*                                                                         *)
(* Python text is a sequence of one-character strings ("RUPEE" stands for  *)
(* the rupee sign).  A Python value is a record with a kind field:         *)
(*   [kind |-> "str", s |-> text], [kind |-> "float", m |-> i, e |-> n]    *)
(*   (the number i / 10^n), [kind |-> "int", n |-> i], [kind |-> "none"],  *)
(*   [kind |-> "nan"] (an empty spreadsheet cell as pandas reads it).      *)
(***************************************************************************)
EXTENDS Integers, Sequences, FiniteSets, TLC

VARIABLES
    df,                     \* the uploaded table: [columns, rows]
    pc,                     \* position of the script
    index,                  \* loop variable of df.iterrows() (0-based label)
    total_rows,             \* len(df)
    progress_log,           \* values handed to progress_bar.progress, in order
    stock_name,             \* locals of the loop body
    full_symbol,
    screener_name_for_url,
    data_yf,                \* what yf.Ticker(full_symbol).info did for this row
    current_price,
    market_cap_cr,
    response,               \* what the Screener request did for this row
    screener_data,
    results,                \* the list of result dicts
    warnings,               \* rows (index) for which st.warning was shown
    screener_calls,         \* rows (index) for which the Screener scrape was called
    status,                 \* label of the st.status container
    df_results,             \* the exported frame: [columns, rows] once built
    arg,                    \* input of a function checked on its own
    ret                     \* its result

vars == <<df, pc, index, total_rows, progress_log, stock_name, full_symbol,
          screener_name_for_url, data_yf, current_price, market_cap_cr,
          response, screener_data, results, warnings, screener_calls, status,
          df_results, arg, ret>>

-----------------------------------------------------------------------------
(* Bounds of the model *)

MaxRows == 2

MaxNameLen == 3

MaxTextLen == 3

MaxLi == 2

-----------------------------------------------------------------------------
(* Python values *)

Str(s) == [kind |-> "str", s |-> s]

PyInt(n) == [kind |-> "int", n |-> n]

None == [kind |-> "none"]

NaN == [kind |-> "nan"]

Unset == [kind |-> "unset"]

RECURSIVE Reduce(_, _)
\* m / 10^e with trailing zeros of the fraction dropped: equal floats get equal records
Reduce(m, e) ==
    IF m = 0 THEN [m |-> 0, e |-> 0]
    ELSE IF e > 0 /\ m % 10 = 0 THEN Reduce(m \div 10, e - 1)
    ELSE [m |-> m, e |-> e]

Float(m, e) == [kind |-> "float", m |-> Reduce(m, e).m, e |-> Reduce(m, e).e]

NA == Str(<<"N", "/", "A">>)

-----------------------------------------------------------------------------
(* str methods and the regular expressions *)

Whitespace == {" ", "\t", "\n"}

DigitChars == <<"0", "1", "2", "3", "4", "5", "6", "7", "8", "9">>

Digits == {DigitChars[i] : i \in 1..10}

LowerChars == <<"a", "b", "c", "d", "e", "f", "g", "h", "i", "j", "k", "l", "m",
                "n", "o", "p", "q", "r", "s", "t", "u", "v", "w", "x", "y", "z">>

UpperChars == <<"A", "B", "C", "D", "E", "F", "G", "H", "I", "J", "K", "L", "M",
                "N", "O", "P", "Q", "R", "S", "T", "U", "V", "W", "X", "Y", "Z">>

Letters == {LowerChars[i] : i \in 1..26} \cup {UpperChars[i] : i \in 1..26}

UpperChar(c) ==
    IF \E i \in 1..26 : LowerChars[i] = c
    THEN UpperChars[CHOOSE i \in 1..26 : LowerChars[i] = c]
    ELSE c

\* str.upper()
Upper(s) == [i \in 1..Len(s) |-> UpperChar(s[i])]

RECURSIVE LStrip(_)
LStrip(s) ==
    IF s # <<>> /\ Head(s) \in Whitespace THEN LStrip(Tail(s)) ELSE s

RECURSIVE RStrip(_)
RStrip(s) ==
    IF s # <<>> /\ s[Len(s)] \in Whitespace
    THEN RStrip(SubSeq(s, 1, Len(s) - 1))
    ELSE s

\* str.strip()
Strip(s) == RStrip(LStrip(s))

RECURSIVE Replace(_, _, _)
\* str.replace(c, r) for a one-character c
Replace(s, c, r) ==
    IF s = <<>> THEN <<>>
    ELSE (IF Head(s) = c THEN r ELSE <<Head(s)>>) \o Replace(Tail(s), c, r)

\* needle in s
Contains(s, needle) ==
    \E i \in 1..(Len(s) - Len(needle) + 1) :
        SubSeq(s, i, i + Len(needle) - 1) = needle

AllDigits(s) == s # <<>> /\ \A i \in 1..Len(s) : s[i] \in Digits

\* -?\d+(\.\d+)? over the whole of s
MatchNumber(s) ==
    LET u == IF s # <<>> /\ Head(s) = "-" THEN Tail(s) ELSE s
    IN  \/ AllDigits(u)
        \/ \E i \in 1..Len(u) :
              /\ u[i] = "."
              /\ AllDigits(SubSeq(u, 1, i - 1))
              /\ AllDigits(SubSeq(u, i + 1, Len(u)))

\* re.match(r'^-?\d+(\.\d+)?$', s): $ also matches before a final newline
is_valid_number(s) ==
    \/ MatchNumber(s)
    \/ s # <<>> /\ s[Len(s)] = "\n" /\ MatchNumber(SubSeq(s, 1, Len(s) - 1))

DigitVal(c) == (CHOOSE i \in 1..10 : DigitChars[i] = c) - 1

RECURSIVE DigitsToNat(_)
DigitsToNat(s) ==
    IF s = <<>> THEN 0
    ELSE DigitsToNat(SubSeq(s, 1, Len(s) - 1)) * 10 + DigitVal(s[Len(s)])

\* float(s) for an s that is_valid_number accepts
float(s) ==
    LET t == Strip(s)
        neg == Head(t) = "-"
        u == IF neg THEN Tail(t) ELSE t
        dot == IF \E i \in 1..Len(u) : u[i] = "."
               THEN CHOOSE i \in 1..Len(u) : u[i] = "."
               ELSE 0
        ds == IF dot = 0 THEN u
              ELSE SubSeq(u, 1, dot - 1) \o SubSeq(u, dot + 1, Len(u))
        e == IF dot = 0 THEN 0 ELSE Len(u) - dot
        n == DigitsToNat(ds)
    IN  Float(IF neg THEN 0 - n ELSE n, e)

IsWordChar(c) == c \in Letters \cup Digits \cup {"_"}

\* re.compile(r'\b' + re.escape(word) + r'\b', re.IGNORECASE).search(s),
\* for a word that starts and ends with a word character
WordSearch(s, word) ==
    \E i \in 1..(Len(s) - Len(word) + 1) :
        /\ \A k \in 1..Len(word) : UpperChar(s[i + k - 1]) = UpperChar(word[k])
        /\ (i = 1 \/ ~IsWordChar(s[i - 1]))
        /\ (i + Len(word) - 1 = Len(s) \/ ~IsWordChar(s[i + Len(word)]))

-----------------------------------------------------------------------------
(* The Screener page.  A parsed page (soup) is                             *)
(*   [ratios   : <<>>-or-<<ul>>, ul a sequence of li, each li a function   *)
(*               from a subset of {"name", "value"} (the spans it has) to  *)
(*               their text,                                               *)
(*    sections : a function from section ids to tables, a table a sequence *)
(*               of rows, a row a sequence of td texts].                   *)
(* What the request did is [status, soup, li_fault, table_fault]: status   *)
(* "timeout" (requests.get raised), "http_error" (raise_for_status         *)
(* raised), "parse_error" (BeautifulSoup raised) or "ok"; li_fault = k > 0 *)
(* when the body of the for loop raises at the k-th li; table_fault when a *)
(* statement inside extract_table_value raises.                            *)

Min(S) == CHOOSE x \in S : \A y \in S : x <= y

\* table.find('td', string=pattern): the row of the first td, in document
\* order, whose text the pattern finds; 0 when there is none
FindRow(table, row_name) ==
    LET hits == {r \in 1..Len(table) :
                    \E c \in 1..Len(table[r]) : WordSearch(table[r][c], row_name)}
    IN  IF hits = {} THEN 0 ELSE Min(hits)

extract_table_value(outcome, table_id, row_name) ==
    IF outcome.table_fault THEN NA
    ELSE IF table_id \notin DOMAIN outcome.soup.sections THEN NA
    ELSE LET table == outcome.soup.sections[table_id]
             r == FindRow(table, row_name)
         IN  IF r = 0 THEN NA
             ELSE LET data_cols == table[r]
                      value == Replace(Replace(Replace(
                                   Strip(data_cols[Len(data_cols)]),
                                   ",", <<>>), "-", <<>>), " ", <<>>)
                  IN  IF is_valid_number(value) THEN float(value) ELSE NA

PE_LABEL == <<"P", "/", "E">>

\* one pass of the for loop body over li, given the P/E found so far
LiStep(li, pe) ==
    IF "name" \in DOMAIN li /\ "value" \in DOMAIN li
    THEN LET name == Upper(Replace(Strip(li["name"]), "\n", <<" ">>))
             value == Replace(Replace(Replace(Strip(li["value"]),
                          "RUPEE", <<>>), "%", <<>>), ",", <<>>)
         IN  IF Contains(name, PE_LABEL)
             THEN (IF is_valid_number(value) THEN float(value) ELSE NA)
             ELSE pe
    ELSE pe

RECURSIVE PELoop(_, _, _, _)
\* for li in summary_points, from the k-th on: the P/E at the end of the
\* loop, and whether the loop was left by an exception
PELoop(lis, k, li_fault, pe) ==
    IF k > Len(lis) THEN [pe |-> pe, raised |-> FALSE]
    ELSE IF li_fault = k THEN [pe |-> pe, raised |-> TRUE]
    ELSE PELoop(lis, k + 1, li_fault, LiStep(lis[k], pe))

PROFIT_LOSS == "profit-loss"

INTEREST == <<"I", "n", "t", "e", "r", "e", "s", "t">>

\* variant: data starts as {"P/E Ratio": None, "Interest (Cr.)": None}, so a
\* failed request leaves None in both fields
scrape_defaults_none(outcome) ==
    IF outcome.status # "ok" THEN [pe |-> None, interest |-> None]
    ELSE LET lis == IF outcome.soup.ratios = <<>> THEN <<>>
                    ELSE outcome.soup.ratios[1]
             loop == PELoop(lis, 1, outcome.li_fault, NA)
         IN  IF loop.raised THEN [pe |-> loop.pe, interest |-> NA]
             ELSE [pe |-> loop.pe,
                   interest |-> extract_table_value(outcome, PROFIT_LOSS, INTEREST)]

\* the dict scrape_screener_data_minimal returns, given what the request did
scrape_screener_data_minimal(outcome) ==
    IF outcome.status # "ok" THEN [pe |-> NA, interest |-> NA]
    ELSE LET lis == IF outcome.soup.ratios = <<>> THEN <<>>
                    ELSE outcome.soup.ratios[1]
             loop == PELoop(lis, 1, outcome.li_fault, NA)
         IN  IF loop.raised THEN [pe |-> loop.pe, interest |-> NA]
             ELSE [pe |-> loop.pe,
                   interest |-> extract_table_value(outcome, PROFIT_LOSS, INTEREST)]

\* screener_name.replace(" ", "-").replace("&", "%26")
formatted_name(screener_name) ==
    Replace(Replace(screener_name, " ", <<"-">>), "&", <<"%", "2", "6">>)
-----------------------------------------------------------------------------
(* The mapping table and the mapping logic of the loop *)

T_INFOSYS == <<"I", "N", "F", "O", "S", "Y", "S">>

T_INFY_NS == <<"I", "N", "F", "Y", ".", "N", "S">>

T_HDFC == <<"H", "D", "F", "C">>

T_HDFCBANK == <<"H", "D", "F", "C", "B", "A", "N", "K">>

T_HDFCBANK_NS == T_HDFCBANK \o <<".", "N", "S">>

T_LandT == <<"L", "&", "T">>

T_LT == <<"L", "T">>

T_LT_NS == <<"L", "T", ".", "N", "S">>

SYMBOL_MAP ==
    (T_INFOSYS :> [yfinance |-> T_INFY_NS, screener_name |-> T_INFOSYS])
    @@ (T_HDFC :> [yfinance |-> T_HDFCBANK_NS, screener_name |-> T_HDFCBANK])
    @@ (T_LandT :> [yfinance |-> T_LT_NS, screener_name |-> T_LT])

NS_SUFFIX == <<".", "N", "S">>

\* str(v) for the values a 'Stock Name' cell holds here
str(v) ==
    CASE v.kind = "str" -> v.s
      [] v.kind = "nan" -> <<"n", "a", "n">>
      [] v.kind = "none" -> <<"N", "o", "n", "e">>

\* variant: the name is uppercased but not stripped
NormaliseNameNoStrip(v) == Upper(str(v))

\* str(row["Stock Name"]).strip().upper()
NormaliseName(v) == Upper(Strip(str(v)))

\* SYMBOL_MAP.get(stock_name) and the two branches on it
MappingLogic(name) ==
    IF name \in DOMAIN SYMBOL_MAP
    THEN [full_symbol |-> SYMBOL_MAP[name].yfinance,
          screener_name_for_url |-> SYMBOL_MAP[name].screener_name]
    ELSE [full_symbol |-> Replace(name, " ", <<>>) \o NS_SUFFIX,
          screener_name_for_url |-> name]

-----------------------------------------------------------------------------
(* YFinance.  What ticker.info did is [kind |-> "raise"] (a statement of   *)
(* the try block raised) or [kind |-> "dict", d |-> f], f a function from  *)
(* the keys present to their values.                                       *)

CRORE == 10000000

\* a / b rounded to the nearest integer, ties to even, for b > 0
RoundDiv(a, b) ==
    LET q == a \div b
        r == a % b
    IN  IF 2 * r < b THEN q
        ELSE IF 2 * r > b THEN q + 1
        ELSE IF q % 2 = 0 THEN q ELSE q + 1

RECURSIVE Pow10(_)
Pow10(n) == IF n = 0 THEN 1 ELSE 10 * Pow10(n - 1)

\* isinstance(v, (int, float))
IsIntOrFloat(v) == v.kind \in {"int", "float", "nan"}

\* round(raw_market_cap / 10000000, 2)
market_cap_round(raw) ==
    CASE raw.kind = "int" -> Float(RoundDiv(raw.n, CRORE \div 100), 2)
      [] raw.kind = "float" -> Float(RoundDiv(raw.m, Pow10(raw.e) * (CRORE \div 100)), 2)
      [] raw.kind = "nan" -> NaN

\* the try block of the loop: current_price, market_cap_cr and whether the
\* except branch (st.warning) ran
yfinance_block(outcome) ==
    IF outcome.kind # "dict"
    THEN [current_price |-> NA, market_cap_cr |-> NA, warned |-> TRUE]
    ELSE LET d == outcome.d
             price == IF "currentPrice" \in DOMAIN d THEN d["currentPrice"] ELSE NA
             raw_market_cap == IF "marketCap" \in DOMAIN d THEN d["marketCap"] ELSE NA
         IN  [current_price |-> price,
              market_cap_cr |-> IF IsIntOrFloat(raw_market_cap)
                                THEN market_cap_round(raw_market_cap)
                                ELSE NA,
              warned |-> FALSE]

-----------------------------------------------------------------------------
(* Compile, merge and export *)

COL_STOCK_NAME == "Stock Name"

final_new_cols == <<"Stock Name", "YF Symbol Used", "Current Price (Rs.)",
                    "Market Cap (Cr.)", "P/E Ratio", "Interest (Cr.)">>

Range(f) == {f[i] : i \in DOMAIN f}

\* current_result as first built, before the merge
compiled(row, symbol, price, cap, data) ==
    [c \in Range(final_new_cols) |->
        CASE c = "Stock Name" -> row["Stock Name"]
          [] c = "YF Symbol Used" -> Str(symbol)
          [] c = "Current Price (Rs.)" -> price
          [] c = "Market Cap (Cr.)" -> cap
          [] c = "P/E Ratio" -> data.pe
          [] c = "Interest (Cr.)" -> data.interest]

\* variant: current_result.update(row), the input columns overwrite
merged_input_wins(current_result, columns, row) ==
    [c \in DOMAIN current_result \cup Range(columns) |->
        IF c \in Range(columns) THEN row[c] ELSE current_result[c]]

\* for col in df.columns: if col not in current_result: current_result[col] = row[col]
merged(current_result, columns, row) ==
    [c \in DOMAIN current_result \cup Range(columns) |->
        IF c \in DOMAIN current_result THEN current_result[c] ELSE row[c]]

\* final_new_cols + [col for col in df.columns if col not in final_new_cols]
export_columns(columns) ==
    LET NotNew(c) == c \notin Range(final_new_cols)
    IN  final_new_cols \o SelectSeq(columns, NotNew)
-----------------------------------------------------------------------------
(* The inputs: uploaded tables, provider answers, Screener pages *)

BSeq(S, n) == UNION {[1..k -> S] : k \in 0..n}

TX_StockPE == <<"S", "t", "o", "c", "k", " ", "P", "/", "E">>

TX_IndustryPE == <<"I", "n", "d", "u", "s", "t", "r", "y", " ", "p", "/", "e">>

TX_ROCE == <<"R", "O", "C", "E">>

TX_Sales == <<"S", "a", "l", "e", "s">>

TX_InterestCoverage == INTEREST \o <<" ">> \o <<"C", "o", "v", "e", "r">>

TX_Interests == INTEREST \o <<"s">>

TX_12_5 == <<"1", "2", ".", "5">>

TX_30 == <<"3", "0">>

TX_100 == <<"1", "0", "0">>

TX_45_2pct == <<"4", "5", ".", "2", "%">>

TX_dash == <<"-">>

TX_neg_1234_50 == <<"-", "1", ",", "2", "3", "4", ".", "5", "0">>

TX_rupee_1234_50 == <<"RUPEE", "1", ",", "2", "3", "4", ".", "5", "0">>

TX_neg_12_5 == <<"-", "1", "2", ".", "5">>

\* the 'Stock Name' cells of the uploaded tables
StockNameCells ==
    { NaN,
      Str(<<" ">>),
      Str(<<" ", "h", "d", "f", "c">>) }

TX_IT == <<"I", "T">>

\* the column layouts of the uploaded tables; the last lacks 'Stock Name'
ColumnLayouts ==
    { <<"Sector", "Stock Name", "P/E Ratio">>,
      <<"Sector">> }

\* the rows a layout admits
RowsOf(columns) ==
    {row \in [Range(columns) -> StockNameCells \cup {Str(TX_IT), Float(99, 0)}] :
        \A c \in Range(columns) :
            /\ c = "Stock Name" => row[c] \in StockNameCells
            /\ c = "Sector" => row[c] = Str(TX_IT)
            /\ c = "P/E Ratio" => row[c] = Float(99, 0)}

Tables ==
    UNION {{[columns |-> columns, rows |-> rows] :
               rows \in BSeq(RowsOf(columns), MaxRows)} :
           columns \in ColumnLayouts}

\* answers of ticker.info in the loop
InfoOutcomes ==
    { [kind |-> "raise"],
      [kind |-> "dict", d |-> [symbol |-> None]],
      [kind |-> "dict", d |-> [currentPrice |-> Float(15205, 1),
                               marketCap |-> PyInt(123456789)]],
      [kind |-> "dict", d |-> [currentPrice |-> None,
                               marketCap |-> Str(TX_dash)]] }

Li(name, value) == [name |-> name, value |-> value]

GoodTable == << <<TX_Sales, TX_30>>, <<INTEREST, TX_12_5, TX_100>> >>

GoodSoup ==
    [ratios |-> << << Li(TX_ROCE, TX_45_2pct), Li(TX_StockPE, TX_12_5) >> >>,
     sections |-> (PROFIT_LOSS :> GoodTable)]

Ok(soup, li_fault, table_fault) ==
    [status |-> "ok", soup |-> soup, li_fault |-> li_fault,
     table_fault |-> table_fault]

Failed(how) ==
    [status |-> how, soup |-> GoodSoup, li_fault |-> 0, table_fault |-> FALSE]

FailedOutcomes == {Failed("timeout"), Failed("http_error"), Failed("parse_error")}

\* a page without the ratio list and without the profit-loss section
BareSoup == [ratios |-> <<>>, sections |-> ("peers" :> GoodTable)]

\* what the Screener request does in the loop
ScreenerOutcomes ==
    FailedOutcomes
    \cup {Ok(GoodSoup, 0, FALSE), Ok(GoodSoup, 2, FALSE), Ok(BareSoup, 0, FALSE)}

-----------------------------------------------------------------------------
(* The script: "Start Analysis" pressed on an uploaded table *)

NoFrame == [columns |-> <<>>, rows |-> <<>>]

LoopLocalsUnset ==
    /\ stock_name = <<>>
    /\ full_symbol = <<>>
    /\ screener_name_for_url = <<>>
    /\ data_yf = Unset
    /\ current_price = Unset
    /\ market_cap_cr = Unset
    /\ response = Unset
    /\ screener_data = Unset

ScriptIdle ==
    /\ index = 0
    /\ total_rows = 0
    /\ progress_log = <<>>
    /\ LoopLocalsUnset
    /\ results = <<>>
    /\ warnings = <<>>
    /\ screener_calls = <<>>
    /\ status = "Processing Stocks..."
    /\ df_results = NoFrame

Init ==
    /\ df \in Tables
    /\ pc = "button"
    /\ ScriptIdle
    /\ arg = Unset
    /\ ret = Unset

GCD(a, b) == CHOOSE g \in 1..b : a % g = 0 /\ b % g = 0 /\
                 \A h \in 1..b : (a % h = 0 /\ b % h = 0) => h <= g

\* the quotient a / b as a reduced fraction, for a >= 0 and b > 0
Quotient(a, b) == [num |-> a \div GCD(a, b), den |-> b \div GCD(a, b)]

\* if 'Stock Name' not in df.columns: st.error(...)
MissingColumn ==
    /\ pc = "button"
    /\ COL_STOCK_NAME \notin Range(df.columns)
    /\ pc' = "error"
    /\ UNCHANGED <<df, index, total_rows, progress_log, stock_name, full_symbol,
                   screener_name_for_url, data_yf, current_price, market_cap_cr,
                   response, screener_data, results, warnings, screener_calls,
                   status, df_results, arg, ret>>

\* else: results = [], total_rows = len(df), the loop is entered
StartAnalysis ==
    /\ pc = "button"
    /\ COL_STOCK_NAME \in Range(df.columns)
    /\ results' = <<>>
    /\ total_rows' = Len(df.rows)
    /\ index' = 0
    /\ pc' = "loop"
    /\ UNCHANGED <<df, progress_log, stock_name, full_symbol,
                   screener_name_for_url, data_yf, current_price, market_cap_cr,
                   response, screener_data, warnings, screener_calls, status,
                   df_results, arg, ret>>

\* variant: progress = index / total_rows
progress_value_late(i, total) == Quotient(i, total)

\* progress = (index + 1) / total_rows; progress_bar.progress(progress)
progress_value(i, total) == Quotient(i + 1, total)

\* str(row["Stock Name"]).strip().upper() for the row the loop is at
row_stock_name == NormaliseName(df.rows[index + 1][COL_STOCK_NAME])

\* the head of an iteration: progress, then the name and the skip check
RowHead ==
    /\ pc = "loop"
    /\ index < total_rows
    /\ progress_log' = Append(progress_log, progress_value(index, total_rows))
    /\ stock_name' = row_stock_name

\* if not stock_name: continue
SkipRow ==
    /\ RowHead
    /\ row_stock_name = <<>>
    /\ index' = index + 1
    /\ pc' = "loop"
    /\ UNCHANGED <<df, total_rows, full_symbol, screener_name_for_url, data_yf,
                   current_price, market_cap_cr, response, screener_data, results,
                   warnings, screener_calls, status, df_results, arg, ret>>

\* the mapping logic of a row that is not skipped
BeginRow ==
    /\ RowHead
    /\ row_stock_name # <<>>
    /\ full_symbol' = MappingLogic(row_stock_name).full_symbol
    /\ screener_name_for_url' = MappingLogic(row_stock_name).screener_name_for_url
    /\ pc' = "yfinance"
    /\ UNCHANGED <<df, index, total_rows, data_yf, current_price, market_cap_cr,
                   response, screener_data, results, warnings, screener_calls,
                   status, df_results, arg, ret>>

\* variant: the YFinance block without its try/except, an exception of the
\* provider ends the script
YFinanceUncaught ==
    /\ pc = "yfinance"
    /\ \E outcome \in InfoOutcomes :
          /\ data_yf' = outcome
          /\ IF outcome.kind = "raise"
             THEN /\ pc' = "crashed"
                  /\ UNCHANGED <<current_price, market_cap_cr>>
             ELSE /\ pc' = "screener"
                  /\ current_price' = yfinance_block(outcome).current_price
                  /\ market_cap_cr' = yfinance_block(outcome).market_cap_cr
    /\ UNCHANGED <<df, index, total_rows, progress_log, stock_name, full_symbol,
                   screener_name_for_url, response, screener_data, results,
                   warnings, screener_calls, status, df_results, arg, ret>>

\* the YFinance block
YFinance ==
    /\ pc = "yfinance"
    /\ \E outcome \in InfoOutcomes :
          /\ data_yf' = outcome
          /\ current_price' = yfinance_block(outcome).current_price
          /\ market_cap_cr' = yfinance_block(outcome).market_cap_cr
          /\ warnings' = IF yfinance_block(outcome).warned
                         THEN Append(warnings, index)
                         ELSE warnings
    /\ pc' = "screener"
    /\ UNCHANGED <<df, index, total_rows, progress_log, stock_name, full_symbol,
                   screener_name_for_url, response, screener_data, results,
                   screener_calls, status, df_results, arg, ret>>

\* what scrape_screener_data_minimal returns for each thing the request does
ScreenerResults ==
    [outcome \in ScreenerOutcomes |-> scrape_screener_data_minimal(outcome)]

\* screener_data = scrape_screener_data_minimal(stock_name, screener_name_for_url)
Screener ==
    /\ pc = "screener"
    /\ \E outcome \in ScreenerOutcomes :
          /\ response' = outcome
          /\ screener_data' = ScreenerResults[outcome]
    /\ screener_calls' = Append(screener_calls, index)
    /\ pc' = "compile"
    /\ UNCHANGED <<df, index, total_rows, progress_log, stock_name, full_symbol,
                   screener_name_for_url, data_yf, current_price, market_cap_cr,
                   results, warnings, status, df_results, arg, ret>>

\* the result dict of the row being processed
current_result ==
    merged(compiled(df.rows[index + 1], full_symbol, current_price,
                    market_cap_cr, screener_data),
           df.columns, df.rows[index + 1])

\* compile, merge, results.append(current_result), time.sleep(1)
Compile ==
    /\ pc = "compile"
    /\ results' = Append(results, current_result)
    /\ index' = index + 1
    /\ pc' = "loop"
    /\ UNCHANGED <<df, total_rows, progress_log, stock_name, full_symbol,
                   screener_name_for_url, data_yf, current_price, market_cap_cr,
                   response, screener_data, warnings, screener_calls, status,
                   df_results, arg, ret>>

\* the loop is exhausted: status.update(label="Analysis Complete!", ...)
Complete ==
    /\ pc = "loop"
    /\ index = total_rows
    /\ status' = "Analysis Complete!"
    /\ pc' = "export"
    /\ UNCHANGED <<df, index, total_rows, progress_log, stock_name, full_symbol,
                   screener_name_for_url, data_yf, current_price, market_cap_cr,
                   response, screener_data, results, warnings, screener_calls,
                   df_results, arg, ret>>

\* if results: the result frame with its columns reordered
Export ==
    /\ pc = "export"
    /\ results # <<>>
    /\ df_results' = [columns |-> export_columns(df.columns), rows |-> results]
    /\ pc' = "done"
    /\ UNCHANGED <<df, index, total_rows, progress_log, stock_name, full_symbol,
                   screener_name_for_url, data_yf, current_price, market_cap_cr,
                   response, screener_data, results, warnings, screener_calls,
                   status, arg, ret>>

\* no results: nothing is shown
NoExport ==
    /\ pc = "export"
    /\ results = <<>>
    /\ pc' = "done"
    /\ UNCHANGED <<df, index, total_rows, progress_log, stock_name, full_symbol,
                   screener_name_for_url, data_yf, current_price, market_cap_cr,
                   response, screener_data, results, warnings, screener_calls,
                   status, df_results, arg, ret>>

Next ==
    \/ MissingColumn
    \/ StartAnalysis
    \/ SkipRow
    \/ BeginRow
    \/ YFinance
    \/ Screener
    \/ Compile
    \/ Complete
    \/ Export
    \/ NoExport

Spec == Init /\ [][Next]_vars

\* the script is one thread that runs on: no step of it is withheld
LiveSpec == Init /\ [][Next]_vars /\ WF_vars(Next)
-----------------------------------------------------------------------------
(* The mapping logic on its own: lines 110-120 applied to one cell text *)

NameAlphabet == {"l", "&", "T", " ", "\t"}

NameTexts ==
    BSeq(NameAlphabet, MaxNameLen)
    \cup { <<" ", "h", "d", "f", "c", " ">>,
           <<"I", "n", "f", "o", "s", "y", "s">>,
           <<"t", "a", "t", "a", " ", "m", "o", "t", "o", "r", "s">>,
           <<"t", "a", "t", "a", "\t", "m", "o", "t", "o", "r", "s">> }

ResolveInit ==
    /\ df = NoFrame
    /\ ScriptIdle
    /\ pc = "resolve"
    /\ arg \in {Str(t) : t \in NameTexts}
    /\ ret = Unset

\* the name, whether the row is skipped, and the symbols of a row that is not
resolve_row(cell) ==
    LET name == NormaliseName(cell)
    IN  IF name = <<>>
        THEN [stock_name |-> name, skipped |-> TRUE]
        ELSE [stock_name |-> name, skipped |-> FALSE,
              full_symbol |-> MappingLogic(name).full_symbol,
              screener_name_for_url |-> MappingLogic(name).screener_name_for_url,
              url_name |-> formatted_name(MappingLogic(name).screener_name_for_url)]

Resolve ==
    /\ pc = "resolve"
    /\ ret' = resolve_row(arg)
    /\ pc' = "resolved"
    /\ UNCHANGED <<df, index, total_rows, progress_log, stock_name, full_symbol,
                   screener_name_for_url, data_yf, current_price, market_cap_cr,
                   response, screener_data, results, warnings, screener_calls,
                   status, df_results, arg>>

ResolveSpec == ResolveInit /\ [][Resolve]_vars

-----------------------------------------------------------------------------
(* scrape_screener_data_minimal on its own, over more pages *)

TextAlphabet == {"1", "5", ".", "-", ",", " ", "%", "RUPEE"}

CellTexts ==
    BSeq(TextAlphabet, MaxTextLen)
    \cup {TX_neg_1234_50, TX_rupee_1234_50, TX_neg_12_5, TX_45_2pct}

\* a page whose P/E value and whose Interest row's last cell both read t
SameTextSoup(t) ==
    [ratios |-> << << Li(TX_StockPE, t) >> >>,
     sections |-> (PROFIT_LOSS :> << <<INTEREST, TX_30, t>> >>)]

LiPool ==
    { Li(TX_StockPE, TX_12_5),
      Li(TX_IndustryPE, TX_30),
      Li(PE_LABEL, TX_dash),
      Li(TX_ROCE, TX_45_2pct),
      [name |-> TX_StockPE] }

SectionPool ==
    { (PROFIT_LOSS :> GoodTable),
      (PROFIT_LOSS :> << <<TX_InterestCoverage, TX_30>>, <<TX_Interests, TX_12_5>> >>),
      (PROFIT_LOSS :> << <<TX_Sales, TX_100>> >>),
      ("peers" :> GoodTable) }

RatioPool == {<<>>} \cup {<<ul>> : ul \in BSeq(LiPool, MaxLi)}

PoolSoups == [ratios : RatioPool, sections : SectionPool]

LiCount(soup) == IF soup.ratios = <<>> THEN 0 ELSE Len(soup.ratios[1])

ScrapeInputs ==
    FailedOutcomes
    \cup {Ok(SameTextSoup(t), 0, FALSE) : t \in CellTexts}
    \cup UNION {{Ok(soup, k, tf) : k \in 0..LiCount(soup), tf \in BOOLEAN} :
                soup \in PoolSoups}

ScrapeInit ==
    /\ df = NoFrame
    /\ ScriptIdle
    /\ pc = "scrape"
    /\ arg \in ScrapeInputs
    /\ ret = Unset

Scrape ==
    /\ pc = "scrape"
    /\ ret' = scrape_screener_data_minimal(arg)
    /\ pc' = "scraped"
    /\ UNCHANGED <<df, index, total_rows, progress_log, stock_name, full_symbol,
                   screener_name_for_url, data_yf, current_price, market_cap_cr,
                   response, screener_data, results, warnings, screener_calls,
                   status, df_results, arg>>

ScrapeSpec == ScrapeInit /\ [][Scrape]_vars
-----------------------------------------------------------------------------
(* Properties of the row loop *)

LastResult == results[Len(results)]

\* the loop has just appended the result of row index - 1: the locals are
\* still those of that row (a skipped row leaves stock_name empty)
JustCompiled == pc = "loop" /\ index > 0 /\ stock_name # <<>> /\ results # <<>>

\* the price field of the provider's answer, when there is an answer with one
ProvidedPrice(o) ==
    IF o.kind = "dict" /\ "currentPrice" \in DOMAIN o.d
    THEN o.d["currentPrice"]
    ELSE NA

\* the market capitalisation of the provider's answer, in crore
ProvidedCap(o) ==
    IF o.kind = "dict" /\ "marketCap" \in DOMAIN o.d
       /\ o.d["marketCap"].kind \in {"int", "float", "nan"}
    THEN market_cap_round(o.d["marketCap"])
    ELSE NA

T_15205 == [kind |-> "float", m |-> 15205, e |-> 1]

T_12_5 == [kind |-> "float", m |-> 125, e |-> 1]

T_100 == [kind |-> "float", m |-> 100, e |-> 0]

\* C1: for every row, when the Screener fetch fails (timeout, HTTP error
\* status, parse exception) P/E Ratio and Interest are both N/A while Current
\* Price and Market Cap are what the provider's answer gives; and when the
\* provider call raises, Current Price and Market Cap are both N/A while the
\* Screener scrape is still called for the row and its two fields are what
\* it extracted.
C1_FaultIsolation ==
    JustCompiled =>
        /\ response.status \in {"timeout", "http_error", "parse_error"} =>
              /\ LastResult["P/E Ratio"] = NA
              /\ LastResult["Interest (Cr.)"] = NA
              /\ LastResult["Current Price (Rs.)"] = ProvidedPrice(data_yf)
              /\ LastResult["Market Cap (Cr.)"] = ProvidedCap(data_yf)
        /\ data_yf.kind = "raise" =>
              /\ LastResult["Current Price (Rs.)"] = NA
              /\ LastResult["Market Cap (Cr.)"] = NA
              /\ screener_calls # <<>>
              /\ screener_calls[Len(screener_calls)] = index - 1
              /\ response = Ok(GoodSoup, 0, FALSE) =>
                    /\ LastResult["P/E Ratio"] = T_12_5
                    /\ LastResult["Interest (Cr.)"] = T_100

\* two rows done: the provider raised for the first, whose Screener fields
\* were extracted; the Screener fetch failed for the second, whose provider
\* fields are there
C1_Witness ==
    /\ JustCompiled
    /\ Len(results) = 2
    /\ results[1]["Current Price (Rs.)"] = NA
    /\ results[1]["Market Cap (Cr.)"] = NA
    /\ results[1]["P/E Ratio"] = T_12_5
    /\ results[1]["Interest (Cr.)"] = T_100
    /\ response.status = "http_error"
    /\ data_yf.kind = "dict"
    /\ results[2]["P/E Ratio"] = NA
    /\ results[2]["Interest (Cr.)"] = NA
    /\ results[2]["Current Price (Rs.)"] = T_15205
    /\ results[2]["Market Cap (Cr.)"] = [kind |-> "float", m |-> 1235, e |-> 2]

HasStockName == COL_STOCK_NAME \in Range(df.columns)

\* a 'Stock Name' cell that is text made of whitespace only (or of nothing)
IsBlank(v) == v.kind = "str" /\ \A i \in 1..Len(v.s) : v.s[i] \in Whitespace

RECURSIVE KeptIndexes(_, _)
\* the 0-based indexes of the first n rows whose name is not blank, in order
KeptIndexes(rows, n) ==
    IF n = 0 THEN <<>>
    ELSE IF IsBlank(rows[n][COL_STOCK_NAME])
         THEN KeptIndexes(rows, n - 1)
         ELSE Append(KeptIndexes(rows, n - 1), n - 1)

\* the loop is over: every row had exactly one iteration, in order, and every
\* row with a name went through the Screener step exactly once
Completed ==
    /\ status = "Analysis Complete!"
    /\ index = Len(df.rows)
    /\ Len(progress_log) = Len(df.rows)
    /\ \A k \in 1..Len(progress_log) :
          progress_log[k].num * Len(df.rows) = k * progress_log[k].den
    /\ screener_calls = KeptIndexes(df.rows, Len(df.rows))
    /\ Len(results) = Len(screener_calls)

\* C2: for every table with the 'Stock Name' column and every combination of
\* per-row outcomes of the two sources, the loop visits every row exactly
\* once and eventually reaches 'Analysis Complete'; no failure of a row's
\* fetch or extraction stops or skips later rows.
C2_RunsToCompletion == HasStockName => <>Completed

\* the batch completed although the provider raised for a row and the
\* Screener fetch failed for a row
C2_Witness ==
    /\ Completed
    /\ Len(results) = 2
    /\ warnings # <<>>
    /\ results[1]["P/E Ratio"] = NA
    /\ results[2]["P/E Ratio"] = T_12_5

MetricColumns == {"Current Price (Rs.)", "Market Cap (Cr.)", "P/E Ratio",
                  "Interest (Cr.)"}

IsFiniteNumber(v) == v.kind \in {"int", "float"}

\* C5: in every result row appended, each of the four metrics (Current Price,
\* Market Cap, P/E Ratio, Interest) is a finite number or the marker 'N/A',
\* never None, a non-numeric string or another shape, whatever the provider
\* and the Screener page answer.
C5_NumericFields ==
    \A i \in 1..Len(results) : \A c \in MetricColumns :
        IsFiniteNumber(results[i][c]) \/ results[i][c] = NA

\* C8: every result row holds the six extracted columns plus every input
\* column that is not one of the six, with the input row's value; an input
\* column named like an extracted one holds the extracted value; there are no
\* other columns; the exported frame lists the six, then the remaining input
\* columns; the input table is not modified.
C8_Rows ==
    /\ pc \in {"loop", "export", "done"} =>
          LET kept == KeptIndexes(df.rows, index)
          IN  \A j \in 1..Len(results) :
                  /\ DOMAIN results[j] = Range(final_new_cols) \cup Range(df.columns)
                  /\ \A c \in Range(df.columns) \ Range(final_new_cols) :
                        results[j][c] = df.rows[kept[j] + 1][c]
                  /\ results[j]["P/E Ratio"] \in
                        {scrape_screener_data_minimal(o).pe : o \in ScreenerOutcomes}
    /\ JustCompiled =>
          /\ LastResult["P/E Ratio"] = screener_data.pe
          /\ LastResult["Interest (Cr.)"] = screener_data.interest
          /\ LastResult["Current Price (Rs.)"] = current_price
          /\ LastResult["Market Cap (Cr.)"] = market_cap_cr
          /\ LastResult["YF Symbol Used"] = Str(full_symbol)
    /\ pc = "done" /\ results # <<>> =>
          /\ df_results.rows = results
          /\ Range(df_results.columns) = DOMAIN results[1]
          /\ SubSeq(df_results.columns, 1, 6) = final_new_cols
          /\ \A a, b \in 1..Len(df_results.columns) :
                a # b => df_results.columns[a] # df_results.columns[b]

C8_MergeRule == []C8_Rows /\ [][df' = df]_vars

\* the input has its own 'P/E Ratio' column (99) and a 'Sector' column: the
\* result holds the extracted P/E and the input's Sector
C8_Witness ==
    /\ pc = "done"
    /\ "P/E Ratio" \in Range(df.columns)
    /\ results # <<>>
    /\ \A i \in 1..Len(df.rows) : df.rows[i]["P/E Ratio"] = Float(99, 0)
    /\ results[1]["P/E Ratio"] = T_12_5
    /\ results[1]["Sector"] = Str(TX_IT)
    /\ df_results.columns[Len(df_results.columns)] = "Sector"

\* the number of iterations that have ended (a row compiled or skipped)
RowsProcessed == index

\* the number of iterations that have begun
RowsStarted == IF pc \in {"yfinance", "screener", "compile"} THEN index + 1 ELSE index

ProgressValues ==
    /\ \A k \in 1..Len(progress_log) :
          /\ progress_log[k].num * total_rows = k * progress_log[k].den
          /\ 0 < progress_log[k].num
          /\ progress_log[k].num <= progress_log[k].den
    /\ \A k \in 1..(Len(progress_log) - 1) :
          progress_log[k].num * progress_log[k + 1].den
              < progress_log[k + 1].num * progress_log[k].den
    /\ pc \in {"export", "done"} /\ progress_log # <<>> =>
          progress_log[Len(progress_log)] = [num |-> 1, den |-> 1]

\* C10 as stated: the progress values increase within (0, 1]; each is emitted
\* after its row has been processed and equals (rows processed so far) /
\* (total rows); the last one is 1.
C10_AsStated ==
    /\ ProgressValues
    /\ Len(progress_log) <= RowsProcessed

\* C10, amended: the progress values increase within (0, 1]; each is emitted
\* at the start of its row's iteration, before the row is processed or
\* skipped, and equals (rows started so far) / (total rows); the last one,
\* emitted when the last row's iteration starts, is 1, also when rows are
\* skipped.
C10_Progress ==
    /\ ProgressValues
    /\ pc \in {"loop", "yfinance", "screener", "compile", "export", "done"} =>
          Len(progress_log) = RowsStarted
    /\ pc \in {"export", "done"} => Len(progress_log) = total_rows

\* the second of two rows is being processed after the first was skipped:
\* the value 1 is already out
C10_Witness ==
    /\ pc = "screener"
    /\ total_rows = 2
    /\ index = 1
    /\ results = <<>>
    /\ progress_log = <<[num |-> 1, den |-> 2], [num |-> 1, den |-> 1]>>

-----------------------------------------------------------------------------
(* Properties of the mapping logic *)

RECURSIVE RemoveWhitespace(_)
RemoveWhitespace(s) ==
    IF s = <<>> THEN <<>>
    ELSE (IF Head(s) \in Whitespace THEN <<>> ELSE <<Head(s)>>)
         \o RemoveWhitespace(Tail(s))

\* C4: for every non-empty name, trimmed and uppercased: a key of the
\* override table gives exactly the configured pair; any other name gives
\* the name with all whitespace removed followed by '.NS', and the name
\* unchanged as the Screener identifier.
C4_AsStated ==
    pc = "resolved" /\ ~ret.skipped =>
        LET name == ret.stock_name
        IN  IF name \in {T_INFOSYS, T_HDFC, T_LandT}
            THEN /\ name = T_INFOSYS =>
                       ret.full_symbol = T_INFY_NS /\ ret.screener_name_for_url = T_INFOSYS
                 /\ name = T_HDFC =>
                       ret.full_symbol = T_HDFCBANK_NS /\ ret.screener_name_for_url = T_HDFCBANK
                 /\ name = T_LandT =>
                       ret.full_symbol = T_LT_NS /\ ret.screener_name_for_url = T_LT
            ELSE /\ ret.full_symbol = RemoveWhitespace(name) \o <<".", "N", "S">>
                 /\ ret.screener_name_for_url = name

-----------------------------------------------------------------------------
(* Properties of the two extractors *)

\* the page is one of those whose P/E value and last Interest cell read the
\* same text
IsSameText(o) ==
    /\ o.status = "ok"
    /\ o.li_fault = 0
    /\ ~o.table_fault
    /\ o.soup.ratios # <<>>
    /\ Len(o.soup.ratios[1]) = 1
    /\ "value" \in DOMAIN o.soup.ratios[1][1]
    /\ o.soup = SameTextSoup(o.soup.ratios[1][1].value)

\* thousands separators, currency symbol and percent sign removed, then the
\* surrounding whitespace
Normalised(t) ==
    Strip(Replace(Replace(Replace(t, ",", <<>>), "RUPEE", <<>>), "%", <<>>))

\* the number the text reads, sign included, or N/A
ParsedStrictly(t) ==
    IF MatchNumber(Normalised(t)) THEN float(Normalised(t)) ELSE NA

\* C6: both extractors parse a text by the same rule: a text that, without
\* thousands separators, currency symbol, percent sign and surrounding
\* whitespace, reads -?digits(.digits)? gives exactly that number, sign
\* included; any other text gives N/A; extract_table_value and the P/E
\* branch agree on the same text.
C6_AsStated ==
    pc = "scraped" /\ IsSameText(arg) =>
        /\ ret.interest = ParsedStrictly(arg.soup.ratios[1][1].value)
        /\ ret.pe = ParsedStrictly(arg.soup.ratios[1][1].value)
        /\ ret.pe = ret.interest

\* C7: for a fetched page, a fault or miss in the P/E extraction (no
\* container, malformed entry, exception in the traversal of the list) makes
\* only P/E Ratio N/A, and Interest is what the profit-loss table gives; a
\* fault in the Interest extraction leaves the P/E already extracted.
C7_AsStated ==
    pc = "scraped" /\ arg.status = "ok" =>
        /\ ret.interest = extract_table_value(arg, PROFIT_LOSS, INTEREST)
        /\ arg.li_fault = 0 =>
              ret.pe = scrape_screener_data_minimal(
                           [arg EXCEPT !.table_fault = FALSE]).pe

\* the entries of the list that have both spans and a label containing P/E
PEEntries(lis) ==
    {k \in 1..Len(lis) :
        /\ "name" \in DOMAIN lis[k]
        /\ "value" \in DOMAIN lis[k]
        /\ Contains(Upper(Strip(lis[k].name)), PE_LABEL)}

\* C9: the P/E reported is the parse of the value of the first entry whose
\* label contains 'P/E' (case-insensitive); later matching entries do not
\* change it; it is N/A only without container, without matching entry, or
\* when that first value does not parse.
C9_AsStated ==
    pc = "scraped" /\ arg.status = "ok" /\ arg.li_fault = 0 =>
        LET lis == IF arg.soup.ratios = <<>> THEN <<>> ELSE arg.soup.ratios[1]
        IN  IF PEEntries(lis) = {} THEN ret.pe = NA
            ELSE ret.pe = LiStep(lis[Min(PEEntries(lis))], NA)

=============================================================================
